---- MODULE Spec2Model ----
(***************************************************************************)
(* The document-store access layer (MongoService) and the project          *)
(* repository built on it (ProjectRepository).                             *)
(*                                                                         *)
(* A call is followed through the await points of withConnection:          *)
(*   Call -> Connect -> Request -> Close (and return)                      *)
(* and the store (MongoDB collections), the shared MongoClient and the     *)
(* ObjectId generator are the environment it acts on.                      *)
(***************************************************************************)
EXTENDS Integers, Sequences, FiniteSets, TLC

VARIABLES
    calls,      \* the calls in flight or last completed, one per caller slot
    store,      \* collection name -> sequence of stored documents (natural order)
    nextId,     \* number of ObjectIds the driver has generated so far
    client,     \* this.client: the one MongoClient of the MongoService instance
    inserted,   \* history: the documents insertOne has put, as they were passed,
                \* that no update, delete or drop has touched since
    owners,     \* history: the userId each stored document was inserted with
    removed,    \* history: the collections removeCollection has returned ok
                \* for, with no insert into them since
    deleted,    \* history: the identifiers whose delete has returned ok
    updated     \* history: the last update that matched each stored document

vars == <<calls, store, nextId, client, inserted, owners, removed, deleted, updated>>

----------------------------------------------------------------------------
(* Bounds *)

\* Length of an identifier's hex string (24 in the driver, scaled down).
IdLen == 2

\* Number of ObjectIds the driver generates in a run (number of inserts).
MaxIds == 2

\* Caller slots: at most two calls of one MongoService are in flight.
Calls == {1, 2}

Collections == {"projects", "test"}

FieldNames == {"_id", "id", "name", "description", "userId", "createdAt", "updatedAt"}

----------------------------------------------------------------------------
(* Values and documents.  A value carries its runtime type; a document is  *)
(* a map from field names to values, an absent field mapped to Absent.     *)

Absent == [t |-> "absent", v |-> << >>]

Str(s) == [t |-> "string", v |-> s]

Oid(n) == [t |-> "objectid", v |-> n]

Date(s) == [t |-> "date", v |-> s]

EmptyDoc == [f \in FieldNames |-> Absent]

Has(doc, f) == doc[f].t # "absent"

Fields(doc) == {f \in FieldNames : Has(doc, f)}

\* { ...a, ...b }: the fields of b laid over those of a.
Spread(a, b) == [f \in FieldNames |-> IF Has(b, f) THEN b[f] ELSE a[f]]

With(doc, f, x) == [doc EXCEPT ![f] = x]

Without(doc, f) == [doc EXCEPT ![f] = Absent]

----------------------------------------------------------------------------
(* ObjectId: the native identifier is a sequence of IdLen nibbles; its     *)
(* string form is lower-case hex; the constructor accepts hex of either    *)
(* case and nothing else.                                                  *)

HexDigits == <<"0", "1", "2", "3", "4", "5", "6", "7", "8", "9",
               "a", "b", "c", "d", "e", "f">>

UpperDigits == <<"0", "1", "2", "3", "4", "5", "6", "7", "8", "9",
                 "A", "B", "C", "D", "E", "F">>

IsHexChar(ch) == \E n \in 1..16 : HexDigits[n] = ch \/ UpperDigits[n] = ch

HexValue(ch) == (CHOOSE n \in 1..16 : HexDigits[n] = ch \/ UpperDigits[n] = ch) - 1

\* new ObjectId(id) succeeds
ObjectIdValid(id) == Len(id) = IdLen /\ \A i \in 1..Len(id) : IsHexChar(id[i])

\* new ObjectId(id)
ObjectIdFromString(id) == Oid([i \in 1..IdLen |-> HexValue(id[i])])

\* objectId.toString()
toString(oid) == [i \in 1..Len(oid.v) |-> HexDigits[oid.v[i] + 1]]

\* new ObjectId(): the k-th identifier the driver generates
NewObjectId(k) == Oid([i \in 1..IdLen |-> IF i = IdLen THEN k ELSE 10])

getIdFromString(id) ==
    IF ObjectIdValid(id)
    THEN [ok |-> TRUE, value |-> ObjectIdFromString(id)]
    ELSE [ok |-> FALSE, value |-> Absent]

generateId(k) == toString(NewObjectId(k))

----------------------------------------------------------------------------
(* zod: a schema names the fields an object must carry and their types;    *)
(* z.object strips every key the schema does not name.                     *)

NoSchema == [f \in FieldNames |-> "none"]

Conforms(schema, doc) == \A f \in FieldNames : schema[f] # "none" => doc[f].t = schema[f]

Strip(schema, doc) == [f \in FieldNames |-> IF schema[f] # "none" THEN doc[f] ELSE Absent]

\* for comparison: a parse that keeps the documents that validate
safeParseValid(sch, docs) ==
    LET Valid(d) == Conforms(sch, d)
        kept == SelectSeq(docs, Valid)
    IN  [success |-> TRUE, data |-> [i \in 1..Len(kept) |-> Strip(sch, kept[i])]]

\* z.array(schema).safeParse(docs)
safeParse(schema, docs) ==
    IF \A i \in 1..Len(docs) : Conforms(schema, docs[i])
    THEN [success |-> TRUE, data |-> [i \in 1..Len(docs) |-> Strip(schema, docs[i])]]
    ELSE [success |-> FALSE, data |-> << >>]

\* the schema of the project repository
schema ==
    [f \in FieldNames |->
        IF f \in {"id", "name", "description"} THEN "string"
        ELSE IF f \in {"createdAt", "updatedAt"} THEN "date"
        ELSE "none"]

----------------------------------------------------------------------------
(* The store's side of each request (MongoDB's semantics).                 *)

\* a filter of field equalities matches a document
Matches(doc, query) == \A f \in FieldNames : Has(query, f) => doc[f] = query[f]

MatchingIndexes(docs, query) == {i \in 1..Len(docs) : Matches(docs[i], query)}

FirstMatch(docs, query) ==
    IF MatchingIndexes(docs, query) = {} THEN 0
    ELSE CHOOSE i \in MatchingIndexes(docs, query) :
            \A j \in MatchingIndexes(docs, query) : i <= j

RECURSIVE SelectMatching(_, _)
SelectMatching(docs, query) ==
    IF docs = << >> THEN << >>
    ELSE IF Matches(Head(docs), query)
         THEN <<Head(docs)>> \o SelectMatching(Tail(docs), query)
         ELSE SelectMatching(Tail(docs), query)

\* for comparison: a find sorted newest first
FindNewestFirst(docs, query) ==
    LET r == SelectMatching(docs, query) IN [i \in 1..Len(r) |-> r[Len(r) + 1 - i]]

\* collection.find(query).toArray()
Find(docs, query) == SelectMatching(docs, query)

\* collection.findOne(query): the first match, or null (an empty sequence)
FindOne(docs, query) ==
    IF FirstMatch(docs, query) = 0 THEN << >> ELSE <<docs[FirstMatch(docs, query)]>>

\* collection.insertOne(document): the driver adds _id when the document has none
InsertOne(docs, document, k) == Append(docs, With(document, "_id", NewObjectId(k)))

\* replaceOne, for comparison: it replaces the matched document by the update
UpdateOneReplacing(docs, query, update) ==
    IF FirstMatch(docs, query) = 0 THEN docs
    ELSE [docs EXCEPT ![FirstMatch(docs, query)] = With(update, "_id", @["_id"])]

\* for comparison: an updateOne with upsert, which inserts when nothing matches
UpdateOneUpsert(docs, query, update) ==
    IF FirstMatch(docs, query) = 0
    THEN Append(docs, With(Spread(query, update), "_id", Oid([i \in 1..IdLen |-> 15])))
    ELSE [docs EXCEPT ![FirstMatch(docs, query)] = Spread(@, update)]

\* collection.updateOne(query, {$set: update}): merge into the first match
UpdateOne(docs, query, update) ==
    IF FirstMatch(docs, query) = 0 THEN docs
    ELSE [docs EXCEPT ![FirstMatch(docs, query)] = Spread(@, update)]

\* for comparison: a deleteOne that acknowledges and removes nothing
DeleteOneKeeping(docs, query) == docs

\* collection.deleteOne(query): remove the first match
DeleteOne(docs, query) ==
    IF FirstMatch(docs, query) = 0 THEN docs
    ELSE [i \in 1..(Len(docs) - 1) |->
            IF i < FirstMatch(docs, query) THEN docs[i] ELSE docs[i + 1]]

\* for comparison: a drop that leaves the documents in place
DropKeeping(docs) == docs

\* collection.drop()
Drop(docs) == << >>

----------------------------------------------------------------------------
(* Calls.  One record per caller slot: the arguments the access layer was  *)
(* called with, where the call stands, and what it has seen so far.        *)

NoValue == [docs |-> << >>, insertedId |-> Absent]

NoResult == [kind |-> "none", err |-> "none", cause |-> "none", docs |-> << >>, id |-> << >>]

Ok(docs, id) == [kind |-> "ok", err |-> "none", cause |-> "none", docs |-> docs, id |-> id]

Err(e, cause) == [kind |-> "err", err |-> e, cause |-> cause, docs |-> << >>, id |-> << >>]

\* a promise that rejects: the exception reaches the caller
Thrown(cause) == [kind |-> "throw", err |-> "none", cause |-> cause, docs |-> << >>, id |-> << >>]

IdleCall ==
    [repo |-> "none", op |-> "none", col |-> "none",
     document |-> EmptyDoc, query |-> EmptyDoc, schema |-> NoSchema,
     id |-> << >>, user |-> << >>,
     pc |-> "idle", thrown |-> "none", ret |-> "none", value |-> NoValue,
     result |-> NoResult, trace |-> << >>,
     before |-> << >>, after |-> << >>]

\* the access layer's methods, up to the call of withConnection
ServiceCall(op, collection, document, query, sch) ==
    [IdleCall EXCEPT !.op = op, !.col = collection, !.document = document,
                     !.query = query, !.schema = sch, !.pc = "connect"]

aggregate(collection, pipeline, sch) ==
    ServiceCall("aggregate", collection, EmptyDoc, pipeline, sch)

insertOne(collection, document) ==
    ServiceCall("insertOne", collection, document, EmptyDoc, NoSchema)

getOne(collection, query, sch) ==
    ServiceCall("getOne", collection, EmptyDoc, query, sch)

getMany(collection, sch, query) ==
    ServiceCall("getMany", collection, EmptyDoc, query, sch)

update(collection, upd, query) ==
    ServiceCall("update", collection, upd, query, NoSchema)

delete(collection, query) ==
    ServiceCall("delete", collection, EmptyDoc, query, NoSchema)

removeCollection(collection) ==
    ServiceCall("removeCollection", collection, EmptyDoc, EmptyDoc, NoSchema)

\* a repository method that returns err(WrongId) before calling the service
WrongIdReturn(method, id, user) ==
    [IdleCall EXCEPT !.repo = method, !.id = id, !.user = user, !.pc = "done",
                     !.result = Err("WrongId", "none")]

\* for comparison: a getAll whose pipeline has no $match on userId
ProjectRepository_getAllUnscoped(userId) ==
    LET userIdResult == getIdFromString(userId) IN
    IF ~userIdResult.ok THEN WrongIdReturn("getAll", << >>, userId)
    ELSE [getMany("projects", schema, EmptyDoc)
            EXCEPT !.repo = "getAll", !.user = userId]

\* the repository's methods, up to the call of the service
ProjectRepository_getAll(userId) ==
    LET userIdResult == getIdFromString(userId) IN
    IF ~userIdResult.ok THEN WrongIdReturn("getAll", << >>, userId)
    ELSE [getMany("projects", schema, With(EmptyDoc, "userId", userIdResult.value))
            EXCEPT !.repo = "getAll", !.user = userId]

\* for comparison: a getById that looks the project up by its identifier alone
ProjectRepository_getByIdUnscoped(id, user) ==
    LET userIdResult == getIdFromString(user)
        projectIdResult == getIdFromString(id) IN
    IF ~userIdResult.ok THEN WrongIdReturn("getById", id, user)
    ELSE IF ~projectIdResult.ok THEN WrongIdReturn("getById", id, user)
    ELSE [getOne("projects", With(EmptyDoc, "_id", projectIdResult.value), schema)
            EXCEPT !.repo = "getById", !.id = id, !.user = user]

ProjectRepository_getById(id, user) ==
    LET userIdResult == getIdFromString(user)
        projectIdResult == getIdFromString(id) IN
    IF ~userIdResult.ok THEN WrongIdReturn("getById", id, user)
    ELSE IF ~projectIdResult.ok THEN WrongIdReturn("getById", id, user)
    ELSE [getOne("projects",
                 With(With(EmptyDoc, "_id", projectIdResult.value),
                      "userId", userIdResult.value),
                 schema)
            EXCEPT !.repo = "getById", !.id = id, !.user = user]

\* the first version of create: the project carries the id its caller chose,
\* and insertOne returns nothing
ProjectRepository_createWithId(project) ==
    [insertOne("projects", project) EXCEPT !.repo = "createWithId", !.id = project["id"].v]

\* for comparison: a create that inserts the project without its owner
ProjectRepository_createUnowned(project, userId) ==
    LET userIdResult == getIdFromString(userId) IN
    IF ~userIdResult.ok THEN WrongIdReturn("create", << >>, userId)
    ELSE [insertOne("projects", project) EXCEPT !.repo = "create", !.user = userId]

ProjectRepository_create(project, userId) ==
    LET userIdResult == getIdFromString(userId) IN
    IF ~userIdResult.ok THEN WrongIdReturn("create", << >>, userId)
    ELSE [insertOne("projects", With(project, "userId", userIdResult.value))
            EXCEPT !.repo = "create", !.user = userId]

\* for comparison: an update that hands the project to a fixed owner
ProjectRepository_updateReassigning(project) ==
    LET idResult == getIdFromString(project["id"].v) IN
    IF ~idResult.ok THEN WrongIdReturn("update", project["id"].v, << >>)
    ELSE [update("projects",
                 With(project, "userId", Oid([i \in 1..IdLen |-> 11])),
                 With(EmptyDoc, "_id", idResult.value))
            EXCEPT !.repo = "update", !.id = project["id"].v]

ProjectRepository_update(project) ==
    LET idResult == getIdFromString(project["id"].v) IN
    IF ~idResult.ok THEN WrongIdReturn("update", project["id"].v, << >>)
    ELSE [update("projects", project, With(EmptyDoc, "_id", idResult.value))
            EXCEPT !.repo = "update", !.id = project["id"].v]

\* for comparison: a delete that removes only the projects of one owner
ProjectRepository_deleteOwned(id) ==
    LET idResult == getIdFromString(id) IN
    IF ~idResult.ok THEN WrongIdReturn("delete", id, << >>)
    ELSE [delete("projects",
                 With(With(EmptyDoc, "_id", idResult.value),
                      "userId", Oid([i \in 1..IdLen |-> IF i = IdLen THEN 2 ELSE 11])))
            EXCEPT !.repo = "delete", !.id = id]

\* for comparison: a delete that does not check what getIdFromString returned
ProjectRepository_deleteUnchecked(id) ==
    [delete("projects", With(EmptyDoc, "_id", getIdFromString(id).value))
        EXCEPT !.repo = "delete", !.id = id]

ProjectRepository_delete(id) ==
    LET idResult == getIdFromString(id) IN
    IF ~idResult.ok THEN WrongIdReturn("delete", id, << >>)
    ELSE [delete("projects", With(EmptyDoc, "_id", idResult.value))
            EXCEPT !.repo = "delete", !.id = id]

----------------------------------------------------------------------------
(* What a call returns, from what withConnection left it with.             *)

\* the first version's transformId, which renders _id in place and adds no id field
transformIdInPlace(document) ==
    IF Has(document, "_id")
    THEN With(document, "_id", Str(toString(document["_id"])))
    ELSE document

\* MongoService.transformId
transformId(document) ==
    LET result == IF Has(document, "_id")
                  THEN With(document, "id", Str(toString(document["_id"])))
                  ELSE document
    IN  Without(result, "_id")

\* the catch block of withConnection: every thrown value becomes a MongoError
CatchError(thrown) ==
    CASE thrown = "MongoError" -> Err("MongoError", "thrown")
      [] thrown = "Error"      -> Err("MongoError", "wrapped")
      [] OTHER                 -> Err("MongoError", "unknown")

\* the Result withConnection returns (its finally block aside)
withConnection(call) ==
    IF call.thrown # "none" THEN CatchError(call.thrown)
    ELSE IF call.ret # "ok" THEN Err(call.ret, "none")
    ELSE Ok(call.value.docs, << >>)

\* the rest of each service method, after withConnection has returned
ServiceResult(call) ==
    LET result == withConnection(call)
        parsed == safeParse(call.schema, result.docs)
        transformed == [i \in 1..Len(result.docs) |-> transformId(result.docs[i])]
        parsedT == safeParse(call.schema, transformed)
    IN  IF result.kind = "err" THEN result
        ELSE CASE call.op = "aggregate" ->
                    IF ~parsed.success THEN Err("ParseError", "zod")
                    ELSE Ok(parsed.data, << >>)
               [] call.op = "insertOne" ->
                    IF toString(call.value.insertedId) = << >>
                    THEN Err("MongoError", "failed to return the id")
                    ELSE Ok(<< >>, toString(call.value.insertedId))
               [] call.op = "getOne" ->
                    IF result.docs = << >> THEN Err("NotFound", "none")
                    ELSE IF ~parsedT.success THEN Err("ParseError", "zod")
                    ELSE Ok(parsedT.data, << >>)
               [] call.op = "getMany" ->
                    IF ~parsedT.success THEN Err("ParseError", "zod")
                    ELSE Ok(parsedT.data, << >>)
               [] OTHER -> Ok(<< >>, << >>)

\* the rest of each repository method, after the service has returned
RepositoryResult(call) ==
    LET result == ServiceResult(call) IN
    IF result.kind = "err" THEN result
    ELSE CASE call.repo = "getById" ->
                Ok(<<With(result.docs[1], "id", Str(call.id))>>, << >>)
           [] call.repo = "createWithId" -> Ok(<< >>, << >>)
           [] OTHER -> result

----------------------------------------------------------------------------
(* The callers' inputs.                                                    *)

\* an identifier string of the right length, every character ch but the last
IdString(ch, last) == [i \in 1..IdLen |-> IF i = IdLen THEN last ELSE ch]

UserA == IdString("b", "1")

UserB == IdString("b", "2")

\* malformed identifiers: a character that is no hex digit, a string too short
BadChar == IdString("g", "1")

TooShort == [i \in 1..(IdLen - 1) |-> "a"]

\* the identifiers the driver generates, and the first of them in upper case
GeneratedIds == {generateId(k) : k \in 1..MaxIds}

UpperCaseId == IdString("A", "1")

ProjectIdStrings == GeneratedIds \cup {UpperCaseId, BadChar, TooShort}

UserIdStrings == {UserA, UserB, BadChar}

Names == {<<"Project 1">>}

\* Omit<Project, "id">
NewProject(name) ==
    [f \in FieldNames |->
        CASE f = "name" -> Str(name)
          [] f = "description" -> Str(<<"Description">>)
          [] f \in {"createdAt", "updatedAt"} -> Date(<<"now">>)
          [] OTHER -> Absent]

\* Project
Project(id, name) == With(NewProject(name), "id", Str(id))

\* the calls of the repository's callers, and their tests' teardown
RepositoryRequests ==
    {removeCollection("projects")}
    \cup {ProjectRepository_getAll(u) : u \in UserIdStrings}
    \cup {ProjectRepository_getById(id, u) : id \in ProjectIdStrings, u \in UserIdStrings}
    \cup {ProjectRepository_create(NewProject(n), u) : n \in Names, u \in UserIdStrings}
    \cup {ProjectRepository_update(Project(id, <<"Project 2">>)) : id \in ProjectIdStrings}
    \cup {ProjectRepository_delete(id) : id \in ProjectIdStrings}

\* the documents, filters and schemas of direct calls of the service
TestName == With(EmptyDoc, "name", Str(<<"Test">>))

TestUpdated == With(EmptyDoc, "name", Str(<<"Updated">>))

TestOriginal == With(TestName, "description", Str(<<"Description">>))

ById(k) == With(EmptyDoc, "_id", NewObjectId(k))

TestFilters == {EmptyDoc, TestName} \cup {ById(k) : k \in 1..MaxIds}

NameSchema == [NoSchema EXCEPT !["name"] = "string"]

IdNameSchema == [NameSchema EXCEPT !["id"] = "string"]

FullSchema == [IdNameSchema EXCEPT !["description"] = "string"]

\* the direct calls of the service
ServiceRequests ==
    {insertOne("test", d) : d \in {TestOriginal, TestName}}
    \cup {getOne("test", q, FullSchema) : q \in TestFilters}
    \cup {getOne("test", TestName, s) : s \in {IdNameSchema, schema}}
    \cup {getMany("test", FullSchema, q) : q \in TestFilters}
    \cup {getMany("test", s, TestName) : s \in {IdNameSchema, schema}}
    \cup {aggregate("test", TestName, NameSchema), aggregate("test", EmptyDoc, IdNameSchema)}
    \cup {update("test", TestUpdated, q) : q \in TestFilters}
    \cup {update("test", TestOriginal, ById(1))}
    \cup {delete("test", q) : q \in TestFilters}
    \cup {removeCollection("test")}

\* the calls of the first version's callers: create, with the ids they choose
FirstIds == {<<"1">>, <<"2">>}

FirstProject(id) ==
    With(With(With(EmptyDoc, "id", Str(id)), "name", Str(<<"Project">>)),
         "description", Str(<<"Description">>))

FirstRequests == {ProjectRepository_createWithId(FirstProject(id)) : id \in FirstIds}

\* what every exception thrown by the driver is, to the catch block
ThrownKinds == {"MongoError", "Error", "NonError"}

\* the calls followed when two of them overlap
ConcurrentRequests ==
    {insertOne("test", TestOriginal),
     getMany("test", FullSchema, EmptyDoc),
     delete("test", TestName),
     ProjectRepository_getById(generateId(1), UserA)}

----------------------------------------------------------------------------
(* The state machine.                                                      *)

Closed == [open |-> FALSE, openedBy |-> 0]

Init ==
    /\ calls = [c \in Calls |-> IdleCall]
    /\ store = [col \in Collections |-> << >>]
    /\ nextId = 0
    /\ client = Closed
    /\ inserted = {}
    /\ owners = {}
    /\ removed = {}
    /\ deleted = {}
    /\ updated = {}

Free(c) == calls[c].pc \in {"idle", "done"}

\* a caller calls a method: it runs up to its first await, in the lowest free slot
Invoke(c, request) ==
    /\ Free(c)
    /\ \A d \in Calls : d < c => ~Free(d)
    /\ calls' = [calls EXCEPT ![c] = request]
    /\ UNCHANGED <<store, nextId, client, inserted, owners, removed, deleted, updated>>

\* a caller of the service that awaits each call before it makes the next
Call(c) ==
    /\ \A d \in Calls : Free(d)
    /\ \E request \in ServiceRequests : Invoke(c, request)

\* a caller of the repository that awaits each call before it makes the next
CallRepository(c) ==
    /\ \A d \in Calls : Free(d)
    /\ \E request \in RepositoryRequests : Invoke(c, request)

\* callers that do not await
CallConcurrent(c) == \E request \in ConcurrentRequests : Invoke(c, request)

\* callers of the first version's create, which do not await it
CallFirst(c) == \E request \in FirstRequests : Invoke(c, request)

\* await this.client.connect(): a no-op on a connected client
Connect(c) ==
    /\ calls[c].pc = "connect"
    /\ \/ /\ client' = IF client.open THEN client ELSE [open |-> TRUE, openedBy |-> c]
          /\ calls' = [calls EXCEPT ![c].pc = "request",
                                    ![c].trace = Append(@, "connect")]
       \/ /\ ~client.open
          /\ \E e \in ThrownKinds :
                calls' = [calls EXCEPT ![c].pc = "close", ![c].thrown = e,
                                       ![c].trace = Append(@, "connect")]
          /\ UNCHANGED client
    /\ UNCHANGED <<store, nextId, inserted, owners, removed, deleted, updated>>

\* for comparison: callbacks that do not look at matchedCount and deletedCount
fnUnchecked(call, docs, k) ==
    CASE call.op = "insertOne" ->
            [docs |-> InsertOne(docs, call.document, k + 1), ret |-> "ok",
             value |-> [docs |-> << >>, insertedId |-> NewObjectId(k + 1)]]
      [] call.op = "getOne" ->
            [docs |-> docs, ret |-> "ok",
             value |-> [docs |-> FindOne(docs, call.query), insertedId |-> Absent]]
      [] call.op \in {"getMany", "aggregate"} ->
            [docs |-> docs, ret |-> "ok",
             value |-> [docs |-> Find(docs, call.query), insertedId |-> Absent]]
      [] call.op = "update" ->
            [docs |-> UpdateOne(docs, call.query, call.document), ret |-> "ok",
             value |-> NoValue]
      [] call.op = "delete" ->
            [docs |-> DeleteOne(docs, call.query), ret |-> "ok", value |-> NoValue]
      [] OTHER ->
            [docs |-> Drop(docs), ret |-> "ok", value |-> NoValue]

\* for comparison: an update callback that looks at modifiedCount
fnModified(call, docs, k) ==
    CASE call.op = "update" ->
            [docs |-> UpdateOne(docs, call.query, call.document),
             ret |-> IF UpdateOne(docs, call.query, call.document) = docs
                     THEN "NotFound" ELSE "ok",
             value |-> NoValue]
      [] call.op = "delete" ->
            [docs |-> DeleteOne(docs, call.query),
             ret |-> IF FirstMatch(docs, call.query) = 0 THEN "NotFound" ELSE "ok",
             value |-> NoValue]
      [] OTHER -> fnUnchecked(call, docs, k)

\* the callback each method passes to withConnection: its one request to the
\* store, on the documents docs of its collection, the driver having generated
\* k identifiers
fn(call, docs, k) ==
    CASE call.op = "aggregate" ->
            [docs |-> docs, ret |-> "ok",
             value |-> [docs |-> Find(docs, call.query), insertedId |-> Absent]]
      [] call.op = "insertOne" ->
            [docs |-> InsertOne(docs, call.document, k + 1), ret |-> "ok",
             value |-> [docs |-> << >>, insertedId |-> NewObjectId(k + 1)]]
      [] call.op = "getOne" ->
            [docs |-> docs, ret |-> "ok",
             value |-> [docs |-> FindOne(docs, call.query), insertedId |-> Absent]]
      [] call.op = "getMany" ->
            [docs |-> docs, ret |-> "ok",
             value |-> [docs |-> Find(docs, call.query), insertedId |-> Absent]]
      [] call.op = "update" ->
            [docs |-> UpdateOne(docs, call.query, call.document),
             ret |-> IF FirstMatch(docs, call.query) = 0 THEN "NotFound" ELSE "ok",
             value |-> NoValue]
      [] call.op = "delete" ->
            [docs |-> DeleteOne(docs, call.query),
             ret |-> IF FirstMatch(docs, call.query) = 0 THEN "NotFound" ELSE "ok",
             value |-> NoValue]
      [] OTHER ->
            [docs |-> Drop(docs), ret |-> "ok", value |-> NoValue]

\* the documents of collection col that the request of call on docs touches
Touched(call, docs) ==
    CASE call.op \in {"update", "delete"} /\ FirstMatch(docs, call.query) # 0 ->
            {docs[FirstMatch(docs, call.query)]["_id"]}
      [] call.op = "removeCollection" -> {docs[i]["_id"] : i \in 1..Len(docs)}
      [] OTHER -> {}

\* the history of untouched inserts, after the request of call on docs
RecordInserted(call, docs, k) ==
    IF call.op = "insertOne"
    THEN inserted \cup {[col |-> call.col, oid |-> NewObjectId(k + 1),
                         document |-> call.document]}
    ELSE {e \in inserted : ~(e.col = call.col /\ e.oid \in Touched(call, docs))}

\* the history of owners, after the request of call on docs
RecordOwners(call, docs, k) ==
    IF call.op = "insertOne"
    THEN IF Has(call.document, "userId")
         THEN owners \cup {[col |-> call.col, oid |-> NewObjectId(k + 1),
                            userId |-> call.document["userId"]]}
         ELSE owners
    ELSE IF call.op = "update" THEN owners
    ELSE {e \in owners : ~(e.col = call.col /\ e.oid \in Touched(call, docs))}

\* the history of updates, after the request of call on docs
RecordUpdated(call, docs) ==
    LET rest == {e \in updated : ~(e.col = call.col /\ e.oid \in Touched(call, docs))} IN
    IF call.op = "update" /\ FirstMatch(docs, call.query) # 0
    THEN rest \cup {[col |-> call.col, oid |-> docs[FirstMatch(docs, call.query)]["_id"],
                     document |-> call.document]}
    ELSE rest

\* the histories of removeCollection and delete, once call has returned result
RecordRemoved(call, result) ==
    IF call.op = "removeCollection" /\ result.kind = "ok"
    THEN removed \cup {call.col} ELSE removed

RecordDeleted(call, result) ==
    IF call.op = "delete" /\ result.kind = "ok" /\ FirstMatch(call.before, call.query) # 0
    THEN deleted \cup {[col |-> call.col, oid |-> call.before[FirstMatch(call.before, call.query)]["_id"]]}
    ELSE deleted

\* await fn(this.client): the request succeeds, or throws (as it does on a
\* client that has been closed)
Request(c) ==
    /\ calls[c].pc = "request"
    /\ LET call == calls[c]
           docs == store[call.col]
       IN  \/ /\ client.open
              /\ call.op = "insertOne" => nextId < MaxIds
              /\ LET r == fn(call, docs, nextId) IN
                 /\ store' = [store EXCEPT ![call.col] = r.docs]
                 /\ nextId' = IF call.op = "insertOne" THEN nextId + 1 ELSE nextId
                 /\ inserted' = RecordInserted(call, docs, nextId)
                 /\ owners' = RecordOwners(call, docs, nextId)
                 /\ updated' = RecordUpdated(call, docs)
                 /\ removed' = IF call.op = "insertOne" THEN removed \ {call.col}
                                ELSE removed
                 /\ calls' = [calls EXCEPT
                        ![c].pc = "close", ![c].ret = r.ret, ![c].value = r.value,
                        ![c].trace = Append(@, "request"),
                        ![c].before = docs, ![c].after = r.docs]
           \/ /\ \E e \in ThrownKinds :
                    /\ client.open \/ e = "MongoError"
                    /\ calls' = [calls EXCEPT
                           ![c].pc = "close", ![c].thrown = e,
                           ![c].trace = Append(@, "request"),
                           ![c].before = docs, ![c].after = docs]
              /\ UNCHANGED <<store, nextId, inserted, owners, removed, updated>>
    /\ UNCHANGED <<client, deleted>>

\* what the caller gets once withConnection has returned
Returned(call) ==
    IF call.repo = "none" THEN ServiceResult(call) ELSE RepositoryResult(call)

\* for comparison: close at the end of the try block instead of in finally
CloseInTry(c) ==
    /\ calls[c].pc = "close"
    /\ IF calls[c].thrown # "none"
       THEN /\ client' = client
            /\ calls' = [calls EXCEPT ![c].pc = "done",
                                      ![c].result = Returned(calls[c])]
       ELSE /\ client' = Closed
            /\ calls' = [calls EXCEPT ![c].pc = "done",
                                      ![c].trace = Append(@, "close"),
                                      ![c].result = Returned(calls[c])]
    /\ removed' = RecordRemoved(calls[c], Returned(calls[c]))
    /\ deleted' = RecordDeleted(calls[c], Returned(calls[c]))
    /\ UNCHANGED <<store, nextId, inserted, owners, updated>>

\* finally { await this.client.close() }, and the rest of the method when close
\* resolves; when close rejects, the connection is not released and the
\* exception leaves the finally block in place of the Result
Close(c) ==
    /\ calls[c].pc = "close"
    /\ \/ /\ client' = Closed
          /\ calls' = [calls EXCEPT ![c].pc = "done",
                                    ![c].trace = Append(@, "close"),
                                    ![c].result = Returned(calls[c])]
          /\ removed' = RecordRemoved(calls[c], Returned(calls[c]))
          /\ deleted' = RecordDeleted(calls[c], Returned(calls[c]))
       \/ /\ client' = client
          /\ calls' = [calls EXCEPT ![c].pc = "done",
                                    ![c].trace = Append(@, "close"),
                                    ![c].result = Thrown("close")]
          /\ UNCHANGED <<removed, deleted>>
    /\ UNCHANGED <<store, nextId, inserted, owners, updated>>

Next == \E c \in Calls : Call(c) \/ Connect(c) \/ Request(c) \/ Close(c)

Spec == Init /\ [][Next]_vars

NextRepository == \E c \in Calls : CallRepository(c) \/ Connect(c) \/ Request(c) \/ Close(c)

SpecRepository == Init /\ [][NextRepository]_vars

NextConcurrent == \E c \in Calls : CallConcurrent(c) \/ Connect(c) \/ Request(c) \/ Close(c)

SpecConcurrent == Init /\ [][NextConcurrent]_vars

NextFirst == \E c \in Calls : CallFirst(c) \/ Connect(c) \/ Request(c) \/ Close(c)

SpecFirst == Init /\ [][NextFirst]_vars

----------------------------------------------------------------------------
(* Properties.                                                             *)

Done(c) == calls[c].pc = "done"

\* the call went through withConnection
Served(c) == Done(c) /\ calls[c].op # "none"

\* no step of the call's store interaction (connect, request, close) failed
NoFault(c) == calls[c].thrown = "none" /\ calls[c].result.kind # "throw"

Count(trace, step) == Cardinality({i \in 1..Len(trace) : trace[i] = step})

\* C1: on every exit path of withConnection (connect fails, the request
\* succeeds, the callback returns an err, the callback throws) close is invoked
\* exactly once, as the last step before the result is delivered and never
\* before; and a call whose close returned does not leave the connection it
\* opened open.
C1_CloseOnEveryExitPath ==
    \A c \in Calls :
        /\ ~Done(c) => Count(calls[c].trace, "close") = 0 /\ calls[c].result.kind = "none"
        /\ Served(c) =>
            /\ Count(calls[c].trace, "close") = 1
            /\ calls[c].trace[Len(calls[c].trace)] = "close"
            /\ calls[c].trace \in {<<"connect", "close">>, <<"connect", "request", "close">>}
            /\ calls[c].result.kind # "throw" => ~(client.open /\ client.openedBy = c)

\* a call whose request threw has closed the connection and returned the error
C1_Witness ==
    \E c \in Calls :
        /\ Served(c) /\ calls[c].thrown # "none"
        /\ calls[c].trace = <<"connect", "request", "close">>
        /\ calls[c].result.kind = "err" /\ ~client.open

\* what getOne and getMany make of a stored document: id for _id
Normal(doc) == Without(With(doc, "id", Str(toString(doc["_id"]))), "_id")

\* the stored form of an untouched insert
Stored(e) == With(e.document, "_id", e.oid)

\* the untouched inserts of call's collection that its filter matches
MatchedInserts(call) ==
    {e \in inserted : e.col = call.col /\ Matches(Stored(e), call.query)}

\* every document the filter of call matches satisfies its schema
SchemaSatisfied(call) ==
    \A i \in MatchingIndexes(call.before, call.query) :
        Conforms(call.schema, Normal(call.before[i]))

C3_NoMatchIsNotFound ==
    \A c \in Calls :
        Done(c) /\ NoFault(c) /\ calls[c].op \in {"getOne", "update", "delete"}
                /\ MatchingIndexes(calls[c].before, calls[c].query) = {} =>
            calls[c].result = Err("NotFound", "none")

\* an update whose filter matched none of the stored documents returned NotFound
C3_Witness ==
    \E c \in Calls :
        /\ Done(c) /\ calls[c].op = "update" /\ calls[c].before # << >>
        /\ MatchingIndexes(calls[c].before, calls[c].query) = {}
        /\ calls[c].result = Err("NotFound", "none")

\* the owner a stored project was created with
CreatedBy(oid, userId) ==
    \E e \in owners : e.col = "projects" /\ e.oid = oid /\ e.userId = userId

\* C4: getAll(owner) returns only projects created with that owner, and
\* getById(id, owner) returns ok only for a project created with that owner.
C4_OwnerScoped ==
    \A c \in Calls :
        Done(c) /\ calls[c].result.kind = "ok" =>
            /\ calls[c].repo = "getAll" =>
                \A i \in 1..Len(calls[c].result.docs) :
                    /\ ObjectIdValid(calls[c].result.docs[i]["id"].v)
                    /\ CreatedBy(ObjectIdFromString(calls[c].result.docs[i]["id"].v),
                                 ObjectIdFromString(calls[c].user))
            /\ calls[c].repo = "getById" =>
                /\ Len(calls[c].result.docs) = 1
                /\ calls[c].result.docs[1]["id"] = Str(calls[c].id)
                /\ CreatedBy(ObjectIdFromString(calls[c].id),
                             ObjectIdFromString(calls[c].user))

\* getAll has returned an owner's project while another owner's is stored
C4_Witness ==
    \E c \in Calls :
        /\ Done(c) /\ calls[c].repo = "getAll" /\ calls[c].result.kind = "ok"
        /\ Len(calls[c].result.docs) = 1
        /\ \E e \in owners : e.userId # ObjectIdFromString(calls[c].user)

\* a stored project has the identifier id
Exists(docs, id) == \E i \in 1..Len(docs) : docs[i]["_id"] = ObjectIdFromString(id)

\* C5: getById(id, owner) for a project that is not that owner's returns the
\* one result, NotFound with no data, whether the identifier is another
\* owner's project or no project at all.
C5_NotYoursIsNotFound ==
    \A c \in Calls :
        Served(c) /\ NoFault(c) /\ calls[c].repo = "getById"
                  /\ ~CreatedBy(ObjectIdFromString(calls[c].id),
                                ObjectIdFromString(calls[c].user)) =>
            calls[c].result = Err("NotFound", "none")

\* getById has returned NotFound for a stored project of another owner
C5_Witness ==
    \E c \in Calls :
        /\ Served(c) /\ calls[c].repo = "getById"
        /\ Exists(calls[c].before, calls[c].id)
        /\ calls[c].result = Err("NotFound", "none")

\* the identifier strings the caller passed to a repository method
Supplied(call) ==
    CASE call.repo \in {"getAll", "create"} -> {call.user}
      [] call.repo = "getById" -> {call.id, call.user}
      [] call.repo \in {"update", "delete"} -> {call.id}
      [] OTHER -> {}

Malformed == {BadChar, TooShort}

\* C6: a repository method given a malformed identifier returns WrongId
\* without connecting and without a request, and the step that returns it
\* leaves the store as it was.
C6_MalformedIsWrongId ==
    /\ [](\A c \in Calls :
            calls[c].pc # "idle" /\ Supplied(calls[c]) \cap Malformed # {} =>
                /\ Done(c)
                /\ calls[c].result = Err("WrongId", "none")
                /\ calls[c].trace = << >>)
    /\ [][\A c \in Calls :
            calls'[c] # calls[c] /\ Supplied(calls'[c]) \cap Malformed # {} =>
                store' = store /\ client' = client]_vars

\* update has returned WrongId for a malformed identifier, a project being stored
C6_Witness ==
    \E c \in Calls :
        /\ Done(c) /\ calls[c].repo = "update" /\ calls[c].id \in Malformed
        /\ calls[c].result = Err("WrongId", "none")
        /\ store["projects"] # << >>

\* C7: an update that succeeds sets the fields it names, in the first document
\* its filter matches, leaves that document's other fields as they were, and
\* changes no other document.
C7_UpdateMerges ==
    \A c \in Calls :
        Done(c) /\ calls[c].op = "update" /\ calls[c].result.kind = "ok" =>
            LET was == calls[c].before
                now == store[calls[c].col]
                hit == FirstMatch(was, calls[c].query)
            IN  /\ hit # 0
                /\ Len(now) = Len(was)
                /\ \A i \in 1..Len(was) : i # hit => now[i] = was[i]
                /\ \A f \in FieldNames :
                        now[hit][f] = IF Has(calls[c].document, f)
                                      THEN calls[c].document[f] ELSE was[hit][f]

\* an update of the name alone has kept the description, another document
\* being stored
C7_Witness ==
    \E c \in Calls :
        /\ Done(c) /\ calls[c].op = "update" /\ calls[c].result.kind = "ok"
        /\ calls[c].document = TestUpdated
        /\ Len(calls[c].before) = 2
        /\ LET hit == FirstMatch(calls[c].before, calls[c].query) IN
            /\ calls[c].before[hit]["name"] # store[calls[c].col][hit]["name"]
            /\ Has(store[calls[c].col][hit], "description")

\* C8: no operation throws or rejects, whichever step of the store
\* interaction fails: every call returns a Result, ok or an err of the closed
\* set of kinds.
C8_NoOperationThrows ==
    \A c \in Calls :
        Done(c) =>
            /\ calls[c].result.kind \in {"ok", "err"}
            /\ calls[c].result.kind = "err" =>
                    calls[c].result.err \in {"WrongId", "NotFound", "ParseError", "MongoError"}

\* C9: a call issues at most one request, after its connect and before its
\* close, and a request that fails is returned as a StoreError after that one
\* attempt.
C9_OneRequestNoRetry ==
    \A c \in Calls :
        /\ Count(calls[c].trace, "request") <= 1
        /\ \A i \in 1..Len(calls[c].trace) :
                calls[c].trace[i] = "request" =>
                    /\ i > 1 /\ calls[c].trace[i - 1] = "connect"
                    /\ i < Len(calls[c].trace) => calls[c].trace[i + 1] = "close"
        /\ Done(c) /\ calls[c].thrown # "none" =>
                calls[c].result.kind = "err" /\ calls[c].result.err = "MongoError"

\* C10: while a call is between its connect and its close, its request not yet
\* answered, the connection is open.
C10_OpenUntilOwnRelease ==
    \A c \in Calls : calls[c].pc = "request" => client.open

\* C11: once removeCollection has returned ok for a collection, and until the
\* next insert into it, a read of it whose own steps do not fail finds nothing:
\* getMany (getAll) and aggregate return ok with an empty sequence and getOne
\* (getById) returns NotFound, never a StoreError.
C11_ReadAfterRemove ==
    \A c \in Calls :
        Done(c) /\ NoFault(c) /\ calls[c].col \in removed =>
            /\ calls[c].op \in {"getMany", "aggregate"} => calls[c].result = Ok(<< >>, << >>)
            /\ calls[c].op = "getOne" => calls[c].result = Err("NotFound", "none")

\* getOne has returned NotFound for a collection that held documents and was
\* removed
C11_Witness ==
    \E c \in Calls :
        /\ Done(c) /\ calls[c].op = "getOne" /\ calls[c].col \in removed
        /\ nextId > 0
        /\ calls[c].result = Err("NotFound", "none")

\* the projects created with the owner user and not deleted since
CreatedFor(user) ==
    {e \in owners : e.col = "projects" /\ e.userId = ObjectIdFromString(user)}

\* the place of an identifier in the order the store assigned them
CreatedIndex(id) == ObjectIdFromString(id).v[IdLen]

\* C12: getAll(owner) returns exactly one entity for each project created with
\* that owner (and not deleted), in the order of their creation, under
\* non-empty, pairwise distinct ids.
C12_GetAllInCreateOrder ==
    \A c \in Calls :
        Done(c) /\ NoFault(c) /\ calls[c].repo = "getAll" /\ calls[c].op # "none" =>
            LET docs == calls[c].result.docs IN
            /\ calls[c].result.kind = "ok"
            /\ Len(docs) = Cardinality(CreatedFor(calls[c].user))
            /\ \A i \in 1..Len(docs) :
                    /\ docs[i]["id"].t = "string" /\ docs[i]["id"].v # << >>
                    /\ ObjectIdValid(docs[i]["id"].v)
                    /\ \E e \in CreatedFor(calls[c].user) :
                            e.oid = ObjectIdFromString(docs[i]["id"].v)
            /\ \A i, j \in 1..Len(docs) :
                    i < j => /\ docs[i]["id"] # docs[j]["id"]
                             /\ CreatedIndex(docs[i]["id"].v) < CreatedIndex(docs[j]["id"].v)

\* getAll has returned the two projects created with one owner, nothing deleted
C12_Witness ==
    \E c \in Calls :
        /\ Done(c) /\ calls[c].repo = "getAll" /\ calls[c].result.kind = "ok"
        /\ Len(calls[c].result.docs) = 2
        /\ deleted = {}

\* the projects as create was given them, that no update or delete has touched
Created == {e \in inserted : e.col = "projects"}

\* C13: create returns the identifier the store assigned to the new document,
\* stored with the entity's fields and the owner; and getById(thatId, owner)
\* returns ok with the fields of exactly the entity passed to that create and
\* with id equal to thatId, whatever other projects are stored.
C13_CreateThenGetById ==
    \A c \in Calls :
        /\ Done(c) /\ calls[c].repo = "create" /\ calls[c].result.kind = "ok" =>
            LET new == calls[c].after[Len(calls[c].after)] IN
            /\ Len(calls[c].after) = Len(calls[c].before) + 1
            /\ calls[c].result.id = toString(new["_id"])
            /\ getIdFromString(calls[c].result.id) = [ok |-> TRUE, value |-> new["_id"]]
            /\ new["userId"] = ObjectIdFromString(calls[c].user)
            /\ \A i \in 1..Len(calls[c].before) : calls[c].before[i]["_id"] # new["_id"]
        /\ Done(c) /\ NoFault(c) /\ calls[c].repo = "getById" =>
            \A e \in Created :
                (/\ calls[c].id = toString(e.oid)
                 /\ ObjectIdValid(calls[c].user)
                 /\ e.document["userId"] = ObjectIdFromString(calls[c].user)) =>
                    calls[c].result =
                        Ok(<<With(Without(e.document, "userId"), "id", Str(calls[c].id))>>, << >>)

\* getById has returned a created project, two projects being stored
C13_Witness ==
    \E c \in Calls :
        /\ Done(c) /\ calls[c].repo = "getById" /\ calls[c].result.kind = "ok"
        /\ Len(calls[c].before) = 2
        /\ \E e \in Created : calls[c].id = toString(e.oid)

\* the delete of the project with this identifier has returned ok
Deleted(id) == [col |-> "projects", oid |-> ObjectIdFromString(id)] \in deleted

\* C14: a delete that returns ok has removed exactly the project with that
\* identifier and left every other project as it was and where it was; from
\* then on no stored project has that identifier again, and getById returns
\* NotFound for it, whoever the owner.
C14_DeletedStaysDeleted ==
    /\ \A c \in Calls :
        /\ Done(c) /\ calls[c].repo = "delete" /\ calls[c].result.kind = "ok" =>
            LET was == calls[c].before
                now == calls[c].after
                hit == FirstMatch(was, calls[c].query)
            IN  /\ hit # 0
                /\ was[hit]["_id"] = ObjectIdFromString(calls[c].id)
                /\ Len(now) = Len(was) - 1
                /\ \A i \in 1..Len(now) : now[i] = IF i < hit THEN was[i] ELSE was[i + 1]
                /\ ~Exists(now, calls[c].id)
                /\ Deleted(calls[c].id)
        /\ Served(c) /\ NoFault(c) /\ calls[c].repo = "getById" /\ Deleted(calls[c].id) =>
            calls[c].result = Err("NotFound", "none")
    /\ \A d \in deleted : \A i \in 1..Len(store[d.col]) : store[d.col][i]["_id"] # d.oid

\* getById has returned NotFound for a deleted project, another being stored
C14_Witness ==
    \E c \in Calls :
        /\ Served(c) /\ calls[c].repo = "getById" /\ Deleted(calls[c].id)
        /\ Len(calls[c].before) > 0
        /\ calls[c].result = Err("NotFound", "none")

\* the entities of the last update of each stored project
UpdatedTo(id) ==
    {e.document : e \in {u \in updated : u.col = "projects" /\ u.oid = ObjectIdFromString(id)}}

\* C15: an update that returns ok leaves the project under its native
\* identifier and with its owner; afterwards getById(entity.id, owner) returns
\* ok with the entity's field values for the owner the project was created
\* with, and NotFound for any other owner.
C15_UpdateKeepsIdentity ==
    \A c \in Calls :
        /\ Done(c) /\ calls[c].repo = "update" /\ calls[c].result.kind = "ok" =>
            LET was == calls[c].before
                now == calls[c].after
                hit == FirstMatch(was, calls[c].query)
            IN  /\ hit # 0 /\ Len(now) = Len(was)
                /\ now[hit]["_id"] = was[hit]["_id"]
                /\ now[hit]["_id"] = ObjectIdFromString(calls[c].id)
                /\ now[hit]["userId"] = was[hit]["userId"]
                /\ CreatedBy(was[hit]["_id"], now[hit]["userId"])
                /\ calls[c].document \in UpdatedTo(calls[c].id)
        /\ Served(c) /\ NoFault(c) /\ calls[c].repo = "getById" =>
            \A entity \in UpdatedTo(calls[c].id) :
                calls[c].result =
                    IF CreatedBy(ObjectIdFromString(calls[c].id),
                                 ObjectIdFromString(calls[c].user))
                    THEN Ok(<<With(entity, "id", Str(calls[c].id))>>, << >>)
                    ELSE Err("NotFound", "none")

\* getById has returned an updated project to its owner
C15_Witness ==
    \E c \in Calls :
        /\ Served(c) /\ calls[c].repo = "getById" /\ calls[c].result.kind = "ok"
        /\ UpdatedTo(calls[c].id) # {}
        /\ calls[c].result.docs[1]["name"] = Str(<<"Project 2">>)

\* the update of call names only values its first match already has
SameValues(call) ==
    LET hit == FirstMatch(call.before, call.query) IN
    /\ hit # 0
    /\ \A f \in FieldNames :
            Has(call.document, f) => call.before[hit][f] = call.document[f]

\* C16: an update whose values are those already stored returns ok and leaves
\* the collection as it was, and so does the same update applied again; an
\* update by identifier applied a second time changes nothing more.
C16_UpdateIdempotent ==
    \A c \in Calls :
        Done(c) /\ NoFault(c) /\ calls[c].op = "update" =>
            /\ SameValues(calls[c]) =>
                /\ calls[c].result = Ok(<< >>, << >>)
                /\ calls[c].after = calls[c].before
                /\ fn(calls[c], calls[c].after, nextId).ret = "ok"
                /\ fn(calls[c], calls[c].after, nextId).docs = calls[c].after
            /\ calls[c].result.kind = "ok" /\ Has(calls[c].query, "_id") =>
                /\ fn(calls[c], calls[c].after, nextId).ret = "ok"
                /\ fn(calls[c], calls[c].after, nextId).docs = calls[c].after

\* an update with the stored values of a document has returned ok
C16_Witness ==
    \E c \in Calls :
        /\ Done(c) /\ calls[c].op = "update" /\ calls[c].document = TestOriginal
        /\ SameValues(calls[c])
        /\ calls[c].result.kind = "ok"
        /\ calls[c].after = calls[c].before

\* the documents a read hands to its schema: what the store returned, with id
\* for _id except in aggregate
Parsed(call) ==
    IF call.op = "aggregate" THEN call.value.docs
    ELSE [i \in 1..Len(call.value.docs) |-> transformId(call.value.docs[i])]

\* C17: getOne, getMany and aggregate return ok only with documents that
\* satisfy the schema of the call, one for each document the store returned;
\* when any one of these fails validation the call returns ParseError with the
\* validation diagnostic as its cause, and no document.
C17_OnlyValidated ==
    \A c \in Calls :
        Done(c) /\ NoFault(c) /\ calls[c].repo = "none"
                /\ calls[c].op \in {"getOne", "getMany", "aggregate"} =>
            /\ calls[c].result.kind = "ok" =>
                /\ Len(calls[c].result.docs) = Len(Parsed(calls[c]))
                /\ \A i \in 1..Len(calls[c].result.docs) :
                        /\ Conforms(calls[c].schema, Parsed(calls[c])[i])
                        /\ Conforms(calls[c].schema, calls[c].result.docs[i])
                        /\ calls[c].result.docs[i] = Strip(calls[c].schema, Parsed(calls[c])[i])
            /\ (\E i \in 1..Len(Parsed(calls[c])) :
                        ~Conforms(calls[c].schema, Parsed(calls[c])[i])) =>
                /\ calls[c].result = Err("ParseError", "zod")
                /\ calls[c].result.docs = << >>

\* getMany has returned ParseError, one of two documents satisfying its schema
C17_Witness ==
    \E c \in Calls :
        /\ Done(c) /\ calls[c].op = "getMany" /\ Len(Parsed(calls[c])) = 2
        /\ \E i \in 1..2 : Conforms(calls[c].schema, Parsed(calls[c])[i])
        /\ \E i \in 1..2 : ~Conforms(calls[c].schema, Parsed(calls[c])[i])
        /\ calls[c].result = Err("ParseError", "zod")

\* the identifier strings a call was given, and the one insertOne returned to it
Identifiers(call) ==
    Supplied(call) \cup (IF call.result.kind = "ok" /\ call.op = "insertOne"
                         THEN {call.result.id} ELSE {})

\* C18: every identifier string that getIdFromString accepts is the string
\* form of the native identifier it decodes to, and the strings insertOne
\* returns are accepted.
C18_RoundTrip ==
    \A c \in Calls :
        /\ \A s \in Identifiers(calls[c]) :
                getIdFromString(s).ok => toString(getIdFromString(s).value) = s
        /\ Done(c) /\ calls[c].op = "insertOne" /\ calls[c].result.kind = "ok" =>
                getIdFromString(calls[c].result.id).ok

\* the stored projects that carry the id field id
WithId(docs, id) == {i \in 1..Len(docs) : docs[i]["id"] = Str(id)}

\* C19: no two stored projects carry the same id, and a create (of the first
\* version) for an id that a stored project already carries returns an error.
C19_NoDuplicateId ==
    /\ \A id \in FirstIds : Cardinality(WithId(store["projects"], id)) <= 1
    /\ \A c \in Calls :
            Done(c) /\ calls[c].repo = "createWithId" /\ calls[c].result.kind = "ok" =>
                WithId(calls[c].before, calls[c].id) = {}

\* C20: update and delete take no owner and select by identifier alone: for
\* a stored project, whoever created it, they return ok (their own steps not
\* failing), delete having removed it and update having set the entity's values
\* in it; getById by the creating owner then returns NotFound for the deleted
\* project and the new values for the updated one.
C20_NoOwnershipCheck ==
    \A c \in Calls :
        /\ Served(c) /\ calls[c].repo \in {"update", "delete"} =>
            /\ calls[c].user = << >>
            /\ calls[c].query = With(EmptyDoc, "_id", ObjectIdFromString(calls[c].id))
            /\ NoFault(c) /\ Exists(calls[c].before, calls[c].id) =>
                LET hit == FirstMatch(calls[c].before, calls[c].query) IN
                /\ calls[c].result = Ok(<< >>, << >>)
                /\ calls[c].repo = "delete" => ~Exists(calls[c].after, calls[c].id)
                /\ calls[c].repo = "update" =>
                        \A f \in Fields(calls[c].document) :
                            calls[c].after[hit][f] = calls[c].document[f]
        /\ Served(c) /\ NoFault(c) /\ calls[c].repo = "getById"
                     /\ CreatedBy(ObjectIdFromString(calls[c].id),
                                  ObjectIdFromString(calls[c].user)) =>
                \A entity \in UpdatedTo(calls[c].id) :
                    calls[c].result = Ok(<<With(entity, "id", Str(calls[c].id))>>, << >>)
        /\ Served(c) /\ NoFault(c) /\ calls[c].repo = "getById"
                     /\ Deleted(calls[c].id) =>
                calls[c].result.kind = "err" /\ calls[c].result.err = "NotFound"

\* delete has removed a project of one owner, a project of another being stored
C20_Witness ==
    \E c \in Calls :
        /\ Served(c) /\ calls[c].repo = "delete" /\ calls[c].result.kind = "ok"
        /\ Len(calls[c].before) = 2
        /\ calls[c].before[1]["userId"] # calls[c].before[2]["userId"]
        /\ calls[c].before[FirstMatch(calls[c].before, calls[c].query)]["userId"]
                = ObjectIdFromString(UserA)

\* C21: an update or delete that returns NotFound leaves its collection as it
\* was: the same documents, with the same fields, in the same order, so that
\* every find gives what it gave before the call.
C21_NotFoundChangesNothing ==
    \A c \in Calls :
        Done(c) /\ calls[c].op \in {"update", "delete"}
                /\ calls[c].result = Err("NotFound", "none") =>
            /\ calls[c].after = calls[c].before
            /\ store[calls[c].col] = calls[c].before
            /\ \A q \in TestFilters \cup {calls[c].query} :
                    Find(store[calls[c].col], q) = Find(calls[c].before, q)
            /\ \A e \in inserted :
                    e.col = calls[c].col =>
                        \E i \in 1..Len(store[e.col]) : store[e.col][i] = Stored(e)

\* an update has returned NotFound, a document being stored
C21_Witness ==
    \E c \in Calls :
        /\ Done(c) /\ calls[c].op = "update"
        /\ calls[c].result = Err("NotFound", "none")
        /\ Len(calls[c].before) > 0
        /\ store[calls[c].col] = calls[c].before

====
